---- MODULE Spec2Model ----
(***************************************************************************)
(* State-machine model of the project-planner API: the relational store    *)
(* (src/database/database.py), the HTTP handlers (src/api/main.py) and the *)
(* engine-side document tools (src/naii_agents/tools.py).                 *)
(*                                                                         *)
(* Tables are sets of rows; a primary key is enforced by the create        *)
(* operations exactly as the store does (the INSERT fails, create returns  *)
(* False).  SQLite does not enforce the declared foreign keys (no PRAGMA   *)
(* foreign_keys is issued), so rows may reference a missing project.       *)
(*                                                                         *)
(* Every handler is an "async def" and runs on the event-loop thread; a    *)
(* handler without an await is one atomic step.  /chat suspends once, at   *)
(* "await Runner.run", and is three kinds of step: chat_begin, the tool    *)
(* calls of the engine, and chat_end (or chat_engine_error).               *)
(*                                                                         *)
(* InvitationCRUD and SessionCRUD.update_project are called by the         *)
(* handlers but are not part of database.py; they follow the contract of   *)
(* the specification (section 4.5, 4.1).                                   *)
(***************************************************************************)
EXTENDS Integers, Sequences, FiniteSets, TLC

\* ---------------------------------------------------------------- bounds
MaxTime == 2
MaxTurns == 1
MaxMessages == 4
MaxNotes == 2

\* ------------------------------------------------------ program constants
\* timedelta(days=7); the invitation specification counts the clock in units
\* of seven days
InvitationTTL == 1
\* "file.size > 10 * 1024 * 1024"
MaxUploadSize == 10485760

\* ------------------------------------------------------------ input sets
None == "None"
ProjectIds == {"P1", "P2"}
Uuids == {"U1"}
SessionIds == {"S1"} \cup Uuids
Headers == SessionIds \cup {None}
UserNames == {"Alice"}
Messages == {"hello"}
Contents == {"X", "Y"}
BlankContents == {"", " "}
Replies == {"ok", ""}
Tokens == {"T1"}
Emails == {"bob@example.com"}
ReqIds == {"r1", "r2"}
Threads == {"MainThread", "Worker"}
UploadIds == {"up1", "up2"}
NotifierOutcomes == {"delivered", "failed", "raised"}
FileSizes == {0, MaxUploadSize, MaxUploadSize + 1}
FileTexts == {"notes", None}
UnderscoreProjectIds == {"a", "a_b"}
UnderscoreSessionIds == {"c", "b_c"}
ProjectNames == {"", "N1", "N2"}
Goals == {None, "G1"}
Audiences == {"A1"}
ConstraintLists == {<<>>, <<"a">>, <<"a", "a">>, <<"", "b">>, <<"b", "a">>}
KeyTaskLists == {<<>>, <<"t", "", "t">>}
Notes == {None, "n"}

VARIABLES
    now,            \* wall clock, int(datetime.now().timestamp())
    projects,       \* table projects
    documents,      \* table documents
    sessions,       \* table sessions
    conversations,  \* table conversations
    invitations,    \* table invitations
    uploads,        \* table uploaded_documents
    ctx,            \* naii_agents.tools._project_context, one slot per thread
    reqs,           \* /chat requests suspended at "await Runner.run"
    state,          \* the ProjectState that record_info fills (ctx.state)
    resp            \* the response (or tool result) of the last step

vars == <<now, projects, documents, sessions, conversations, invitations,
          uploads, ctx, reqs, state, resp>>

\* ------------------------------------------------------------- responses
\* the arguments of a record_info call that names no field; a list argument
\* left at its default (None) is the empty list, both are falsy
NoArgs ==
    [project_name |-> None, goal |-> None, audience |-> None,
     constraints |-> <<>>, key_tasks |-> <<>>, note |-> None]

NoResp ==
    [op |-> "init", req |-> None, session_id |-> None, project_id |-> None,
     token |-> None, status |-> 0, valid |-> FALSE, bound |-> None,
     document |-> None, text |-> None, active_users |-> {},
     content |-> None, history |-> <<>>, cleaned |-> 0,
     upload_id |-> None, upload_ids |-> {}, file_size |-> 0,
     args |-> NoArgs, missing |-> <<>>]

Resp(op, sid, pid, status) ==
    [NoResp EXCEPT !.op = op, !.session_id = sid, !.project_id = pid,
                   !.status = status]

IdleReq ==
    [pc |-> "idle", session_id |-> None, project_id |-> None, message |-> None,
     conversation_id |-> None, doc_before |-> None,
     pending_content |-> None, pending_project |-> None]

\* ------------------------------------------------------------ ProjectCRUD
ProjectCRUD_get(tbl, project_id) == {r \in tbl : r.project_id = project_id}

\* INSERT; the primary key rejects a second row for the id (returns False).
ProjectCRUD_create_ok(tbl, project_id) == ProjectCRUD_get(tbl, project_id) = {}

ProjectCRUD_create(tbl, project_id, t) ==
    IF ProjectCRUD_create_ok(tbl, project_id)
    THEN tbl \cup {[project_id |-> project_id, created_at_ts |-> t,
                    updated_at_ts |-> t]}
    ELSE tbl

ProjectCRUD_delete_ok(tbl, project_id) == ProjectCRUD_get(tbl, project_id) # {}

ProjectCRUD_delete(tbl, project_id) == tbl \ ProjectCRUD_get(tbl, project_id)

\* ------------------------------------------------------------ SessionCRUD
SessionCRUD_get(tbl, session_id) == {r \in tbl : r.session_id = session_id}

SessionCRUD_create_ok(tbl, session_id) == SessionCRUD_get(tbl, session_id) = {}

SessionCRUD_create(tbl, session_id, project_id, user_name, t) ==
    IF SessionCRUD_create_ok(tbl, session_id)
    THEN tbl \cup {[session_id |-> session_id, project_id |-> project_id,
                    user_name |-> user_name, joined_at_ts |-> t,
                    last_activity_ts |-> t, is_active |-> TRUE]}
    ELSE tbl

SessionCRUD_update_activity(tbl, session_id, t) ==
    {IF r.session_id = session_id THEN [r EXCEPT !.last_activity_ts = t] ELSE r
        : r \in tbl}

SessionCRUD_set_inactive_ok(tbl, session_id) == SessionCRUD_get(tbl, session_id) # {}

SessionCRUD_set_inactive(tbl, session_id) ==
    {IF r.session_id = session_id THEN [r EXCEPT !.is_active = FALSE] ELSE r
        : r \in tbl}

SessionCRUD_get_active_by_project(tbl, project_id) ==
    {r \in tbl : r.project_id = project_id /\ r.is_active}

\* sessions.update_project is called by accept_invitation; it rebinds the
\* session record to the project
SessionCRUD_update_project(tbl, session_id, project_id) ==
    {IF r.session_id = session_id THEN [r EXCEPT !.project_id = project_id] ELSE r
        : r \in tbl}

\* --------------------------------------------------------- InvitationCRUD
InvitationId(token) == "inv_" \o token

InvitationCRUD_get_by_token(tbl, token) == {r \in tbl : r.invitation_token = token}

\* used_at_ts 0 stands for NULL
InvitationCRUD_create(tbl, invitation_id, project_id, email, token, invited_by, expires_at_ts, t) ==
    tbl \cup {[invitation_id |-> invitation_id, project_id |-> project_id,
               email |-> email, invitation_token |-> token,
               invited_by |-> invited_by, created_at_ts |-> t,
               expires_at_ts |-> expires_at_ts, is_used |-> FALSE,
               used_at_ts |-> 0]}

\* not used, current time < expires_at, and the project still exists
InvitationCRUD_is_valid(tbl, projs, token, t) ==
    \E r \in InvitationCRUD_get_by_token(tbl, token) :
        /\ ~r.is_used
        /\ t < r.expires_at_ts
        /\ ProjectCRUD_get(projs, r.project_id) # {}

InvitationCRUD_mark_used(tbl, invitation_id, t) ==
    {IF r.invitation_id = invitation_id
     THEN [r EXCEPT !.is_used = TRUE, !.used_at_ts = t] ELSE r : r \in tbl}

\* ----------------------------------------------------------- DocumentCRUD
DocumentCRUD_get(tbl, document_id) == {r \in tbl : r.document_id = document_id}

DocumentCRUD_update_content_ok(tbl, document_id) ==
    DocumentCRUD_get(tbl, document_id) # {}

\* faulty variant: the new content is appended to the old
DocumentCRUD_update_content_append(tbl, document_id, content, t) ==
    {IF r.document_id = document_id
     THEN [r EXCEPT !.content = @ \o content, !.updated_at_ts = t] ELSE r : r \in tbl}

\* faulty variant: an existing document keeps its content
DocumentCRUD_update_content_keep(tbl, document_id, content, t) == tbl

DocumentCRUD_update_content(tbl, document_id, content, t) ==
    {IF r.document_id = document_id
     THEN [r EXCEPT !.content = content, !.updated_at_ts = t] ELSE r : r \in tbl}

\* faulty variant: the primary key is not enforced
DocumentCRUD_create_ok_any(tbl, document_id) == TRUE

DocumentCRUD_create_ok(tbl, document_id) == DocumentCRUD_get(tbl, document_id) = {}

DocumentCRUD_create(tbl, document_id, content, project_id, t) ==
    IF DocumentCRUD_create_ok(tbl, document_id)
    THEN tbl \cup {[document_id |-> document_id, content |-> content,
                    updated_at_ts |-> t, project_id |-> project_id]}
    ELSE tbl

\* ------------------------------------------- uploaded_documents (spec 4.4)
UploadedDocumentCRUD_get(tbl, upload_id) == {r \in tbl : r.upload_id = upload_id}

UploadedDocumentCRUD_create_ok(tbl, upload_id) ==
    UploadedDocumentCRUD_get(tbl, upload_id) = {}

UploadedDocumentCRUD_create(tbl, upload_id, project_id, content, file_size, uploaded_by, t) ==
    IF UploadedDocumentCRUD_create_ok(tbl, upload_id)
    THEN tbl \cup {[upload_id |-> upload_id, project_id |-> project_id,
                    content |-> content, file_size |-> file_size,
                    uploaded_by |-> uploaded_by, uploaded_at_ts |-> t]}
    ELSE tbl

UploadedDocumentCRUD_get_by_project(tbl, project_id) ==
    {r \in tbl : r.project_id = project_id}

UploadedDocumentCRUD_delete(tbl, upload_id) == {r \in tbl : r.upload_id # upload_id}

\* ------------------------------------------------------- ConversationCRUD
ConversationCRUD_get(tbl, conversation_id) ==
    {r \in tbl : r.conversation_id = conversation_id}

ConversationCRUD_create(tbl, conversation_id, project_id, session_id, t) ==
    IF ConversationCRUD_get(tbl, conversation_id) = {}
    THEN tbl \cup {[conversation_id |-> conversation_id, project_id |-> project_id,
                    session_id |-> session_id, timestamp_ts |-> t,
                    messages |-> <<>>, is_active |-> TRUE]}
    ELSE tbl

\* faulty variant: the new message is put in front of the list
ConversationCRUD_add_message_in_front(tbl, conversation_id, role, content, t) ==
    {IF r.conversation_id = conversation_id
     THEN [r EXCEPT !.messages = <<[role |-> role, content |-> content,
                                    timestamp |-> t]>> \o @]
     ELSE r : r \in tbl}

\* faulty variant: the list written back was read before the latest append
ConversationCRUD_add_message_stale_read(tbl, conversation_id, role, content, t) ==
    {IF r.conversation_id = conversation_id
     THEN [r EXCEPT !.messages =
             Append(SubSeq(@, 1, IF Len(@) = 0 THEN 0 ELSE Len(@) - 1),
                    [role |-> role, content |-> content, timestamp |-> t])]
     ELSE r : r \in tbl}

ConversationCRUD_add_message(tbl, conversation_id, role, content, t) ==
    {IF r.conversation_id = conversation_id
     THEN [r EXCEPT !.messages = Append(@, [role |-> role, content |-> content,
                                            timestamp |-> t])]
     ELSE r : r \in tbl}

ConversationCRUD_get_by_project(tbl, project_id) ==
    {r \in tbl : r.project_id = project_id}

ConversationCRUD_clear_messages(tbl, conversation_id) ==
    {IF r.conversation_id = conversation_id THEN [r EXCEPT !.messages = <<>>] ELSE r
        : r \in tbl}

\* ------------------------------------------------------- identifiers, text
\* f"doc_{project_id}" and f"conv_{projectId}_{session_id}"
DocumentId(project_id) == "doc_" \o project_id

ConversationId(project_id, session_id) ==
    "conv_" \o project_id \o "_" \o session_id

\* Python truthiness of an Optional[str]
Truthy(x) == x \notin {None, ""}

\* str.strip() on the contents of the model: only blanks are removed
Strip(c) == IF c \in {"", " "} THEN "" ELSE c

get_document_content(docs, project_id) ==
    LET d == DocumentCRUD_get(docs, DocumentId(project_id))
    IN  IF d # {} /\ Strip((CHOOSE r \in d : TRUE).content) # ""
        THEN (CHOOSE r \in d : TRUE).content
        ELSE ""

\* ------------------------------------------------- ProjectState (domain_obj)
ProjectState ==
    [project_name |-> None, goal |-> None, audience |-> None,
     constraints |-> <<>>, key_tasks |-> <<>>, notes |-> <<>>]

ProjectState_missing_fields(st) ==
    SelectSeq(<<"project_name", "goal", "audience", "constraints", "key_tasks">>,
              LAMBDA f : IF f \in {"constraints", "key_tasks"} THEN st[f] = <<>>
                         ELSE ~Truthy(st[f]))

\* faulty variant: the values are filtered against the list as it was before
\* the call and then appended together
record_info_extend_eager(lst, values) ==
    lst \o SelectSeq(values, LAMBDA c : c # "" /\ \A i \in DOMAIN lst : lst[i] # c)

\* "lst.extend(c for c in values if c and c not in lst)": list.extend takes
\* the generator's items one at a time, so each test sees the items that
\* were appended before it
RECURSIVE record_info_extend(_, _)
record_info_extend(lst, values) ==
    IF values = <<>> THEN lst
    ELSE record_info_extend(
            IF Head(values) # "" /\ \A i \in DOMAIN lst : lst[i] # Head(values)
            THEN Append(lst, Head(values)) ELSE lst,
            Tail(values))

\* "if project_name: state.project_name = project_name" and the like
record_info_scalar(old, new) == IF Truthy(new) THEN new ELSE old

\* ------------------------------------------------------------------ Init
Init ==
    /\ now = 0
    /\ projects = {}
    /\ documents = {}
    /\ sessions = {}
    /\ conversations = {}
    /\ invitations = {}
    /\ uploads = {}
    /\ ctx = [t \in Threads |-> None]
    /\ reqs = [r \in ReqIds |-> IdleReq]
    /\ state = ProjectState
    /\ resp = NoResp

\* The clock advances between (never inside) store operations.
Tick ==
    /\ now < MaxTime
    /\ now' = now + 1
    /\ resp' = Resp("tick", None, None, 0)
    /\ UNCHANGED <<state, projects, documents, sessions, conversations,
                   invitations, uploads, ctx, reqs>>

\* ----------------------------------------------------------------- /join
\* get_or_create_session_id: the header, or a fresh uuid4 when it is missing
SessionIdsFor(header) ==
    IF header = None
    THEN {u \in Uuids : SessionCRUD_get(sessions, u) = {}}
    ELSE {header}

\* faulty variant: the project row is rewritten on every join (an upsert)
join_ensure_project_upsert(projs, project_id, t) ==
    (projs \ ProjectCRUD_get(projs, project_id))
        \cup {[project_id |-> project_id, created_at_ts |-> t, updated_at_ts |-> t]}

\* "if not db.projects.get(projectId): db.projects.create(projectId)"
join_ensure_project(projs, project_id, t) ==
    IF ProjectCRUD_get(projs, project_id) = {}
    THEN ProjectCRUD_create(projs, project_id, t)
    ELSE projs

\* the rejoin branch is taken for an existing, active session record
join_is_rejoin(sess, session_id) ==
    \E r \in SessionCRUD_get(sess, session_id) : r.is_active

\* sessions with the duplicates of user_name in the project deactivated
join_deactivate_duplicates(sess, project_id, user_name) ==
    IF Truthy(user_name)
    THEN {IF r \in SessionCRUD_get_active_by_project(sess, project_id)
             /\ r.user_name = user_name
          THEN [r EXCEPT !.is_active = FALSE] ELSE r : r \in sess}
    ELSE sess

\* the session table after the handler
join_sessions(sess, session_id, project_id, user_name, t) ==
    IF join_is_rejoin(sess, session_id)
    THEN IF Truthy(user_name)
            /\ \E r \in SessionCRUD_get(sess, session_id) : r.user_name # user_name
         THEN SessionCRUD_update_activity(sess, session_id, t)
         ELSE sess
    ELSE SessionCRUD_create(join_deactivate_duplicates(sess, project_id, user_name),
                            session_id, project_id, user_name, t)

join_status(sess, session_id, project_id, user_name) ==
    IF join_is_rejoin(sess, session_id) THEN 200
    ELSE IF SessionCRUD_create_ok(
                join_deactivate_duplicates(sess, project_id, user_name), session_id)
         THEN 200 ELSE 500

join_project(header, project_id, user_name) ==
    \E session_id \in SessionIdsFor(header) :
        /\ projects' = join_ensure_project(projects, project_id, now)
        /\ sessions' = join_sessions(sessions, session_id, project_id, user_name, now)
        /\ resp' = Resp("join", session_id, project_id,
                        join_status(sessions, session_id, project_id, user_name))
        /\ UNCHANGED <<state, now, documents, conversations, invitations, uploads, ctx, reqs>>

\* ---------------------------------------------------------------- /leave
leave_project(header) ==
    /\ sessions' = IF header = None THEN sessions
                   ELSE SessionCRUD_set_inactive(sessions, header)
    /\ resp' = [Resp("leave", header, None, 200) EXCEPT
                  !.text = IF header # None /\ SessionCRUD_set_inactive_ok(sessions, header)
                           THEN "Left project successfully"
                           ELSE "No active session found"]
    /\ UNCHANGED <<state, now, projects, documents, conversations, invitations, uploads,
                   ctx, reqs>>

\* ------------------------------------------------- DELETE /projects/{id}
delete_clear_conversations(convs, project_id) ==
    {IF r \in ConversationCRUD_get_by_project(convs, project_id)
     THEN [r EXCEPT !.messages = <<>>] ELSE r : r \in convs}

delete_deactivate_sessions(sess, project_id) ==
    {IF r \in SessionCRUD_get_active_by_project(sess, project_id)
     THEN [r EXCEPT !.is_active = FALSE] ELSE r : r \in sess}

\* faulty variant: without "except HTTPException: raise" the 404 becomes 500
delete_project_status_no_reraise(success) == IF success THEN 200 ELSE 500

\* 404 is raised inside the try block and re-raised by "except HTTPException"
delete_project_status(success) == IF success THEN 200 ELSE 404

delete_project(project_id) ==
    /\ conversations' = delete_clear_conversations(conversations, project_id)
    /\ documents' = DocumentCRUD_update_content(documents, DocumentId(project_id),
                                                "", now)
    /\ sessions' = delete_deactivate_sessions(sessions, project_id)
    /\ projects' = ProjectCRUD_delete(projects, project_id)
    /\ resp' = Resp("delete", None, project_id,
                    delete_project_status(ProjectCRUD_delete_ok(projects, project_id)))
    /\ UNCHANGED <<state, now, invitations, uploads, ctx, reqs>>

\* ----------------------------------------------------------------- /chat
\* threading.local(): one slot per thread.  Every "async def" handler runs on
\* the event-loop thread, so set_project_context always writes that slot.
set_project_context(c, thread, project_id) == [c EXCEPT ![thread] = project_id]

get_project_context(c, thread) == c[thread]

HandlerThread == "MainThread"

Apology == "I apologize, but I wasn't able to process your request."

\* chat(), lines 577-590, then run_agent_conversation up to "await Runner.run";
\* a conversation takes at most "turns" turns
chat_begin_turns(r, header, project_id, message, turns) ==
    /\ reqs[r].pc = "idle"
    /\ IF header = None
       THEN \* HTTPException(401) is caught by "except Exception" and re-raised as 500
            /\ resp' = [Resp("chat", header, project_id, 500) EXCEPT !.req = r]
            /\ UNCHANGED <<state, now, projects, documents, sessions, conversations,
                           invitations, uploads, ctx, reqs>>
       ELSE LET conversation_id == ConversationId(project_id, header)
                created == ConversationCRUD_create(conversations, conversation_id,
                                                   project_id, header, now)
            IN  /\ \A c \in ConversationCRUD_get(conversations, conversation_id) :
                        Len(c.messages) + 2 <= 2 * turns
                /\ sessions' = SessionCRUD_update_activity(sessions, header, now)
                /\ conversations' = ConversationCRUD_add_message(
                                        created, conversation_id, "user", message, now)
                /\ ctx' = set_project_context(ctx, HandlerThread, project_id)
                /\ reqs' = [reqs EXCEPT ![r] =
                              [pc |-> "engine", session_id |-> header,
                               project_id |-> project_id, message |-> message,
                               conversation_id |-> conversation_id,
                               doc_before |-> get_document_content(documents, project_id),
                               pending_content |-> None, pending_project |-> None]]
                /\ resp' = [Resp("chat_begin", header, project_id, 0) EXCEPT !.req = r]
                /\ UNCHANGED <<state, now, projects, documents, invitations, uploads>>

chat_begin(r, header, project_id, message) ==
    chat_begin_turns(r, header, project_id, message, MaxTurns)

\* the document a tool call of the engine works on: f"doc_{project_id}" of the
\* calling thread's context, or None when the thread has no context
tool_document_id(c, thread) ==
    IF get_project_context(c, thread) = None THEN None
    ELSE DocumentId(get_project_context(c, thread))

\* tools.write_doc, called by the engine while request r awaits it
write_doc(r, thread, content) ==
    /\ reqs[r].pc = "engine"
    /\ LET document_id == tool_document_id(ctx, thread)
           project_id == get_project_context(ctx, thread)
       IN  /\ documents' =
                IF document_id = None THEN documents
                ELSE IF DocumentCRUD_update_content_ok(documents, document_id)
                     THEN DocumentCRUD_update_content(documents, document_id,
                                                      content, now)
                     ELSE DocumentCRUD_create(documents, document_id, content,
                                              project_id, now)
           /\ resp' = [Resp("write_doc", reqs[r].session_id, reqs[r].project_id, 0)
                         EXCEPT !.req = r, !.document = document_id,
                                !.content = content,
                                !.text = IF document_id = None
                                         THEN "Error: No project context available"
                                         ELSE "Document updated successfully."]
    /\ UNCHANGED <<state, now, projects, sessions, conversations, invitations, uploads,
                   ctx, reqs>>

\* tools.write_doc as its two store calls, for writers that overlap.
\* Lines 26-34: the context is read once, then update_content is tried; when
\* it returns False the call goes on to create.
write_doc_update(r, thread, content) ==
    /\ reqs[r].pc = "engine"
    /\ reqs[r].pending_project = None
    /\ LET document_id == tool_document_id(ctx, thread)
           project_id == get_project_context(ctx, thread)
           found == document_id # None
                    /\ DocumentCRUD_update_content_ok(documents, document_id)
       IN  /\ documents' = IF found
                           THEN DocumentCRUD_update_content(documents, document_id,
                                                            content, now)
                           ELSE documents
           /\ reqs' = IF document_id = None \/ found THEN reqs
                      ELSE [reqs EXCEPT ![r].pending_content = content,
                                        ![r].pending_project = project_id]
           /\ resp' = [Resp(IF document_id = None \/ found THEN "write_doc"
                            ELSE "write_doc_absent",
                            reqs[r].session_id, reqs[r].project_id, 0)
                         EXCEPT !.req = r, !.document = document_id,
                                !.content = content,
                                !.text = IF document_id = None
                                         THEN "Error: No project context available"
                                         ELSE IF found
                                         THEN "Document updated successfully."
                                         ELSE None]
    /\ UNCHANGED <<state, now, projects, sessions, conversations, invitations, uploads, ctx>>

\* lines 35-42: create after update_content returned False
write_doc_create(r) ==
    /\ reqs[r].pending_project # None
    /\ LET project_id == reqs[r].pending_project
           document_id == DocumentId(project_id)
           content == reqs[r].pending_content
       IN  /\ documents' = DocumentCRUD_create(documents, document_id, content,
                                               project_id, now)
           /\ resp' = [Resp("write_doc", reqs[r].session_id, reqs[r].project_id, 0)
                         EXCEPT !.req = r, !.document = document_id,
                                !.content = content,
                                !.text = IF DocumentCRUD_create_ok(documents, document_id)
                                         THEN "Document updated successfully."
                                         ELSE "Error: Failed to create new document"]
    /\ reqs' = [reqs EXCEPT ![r].pending_content = None,
                            ![r].pending_project = None]
    /\ UNCHANGED <<state, now, projects, sessions, conversations, invitations, uploads, ctx>>

\* tools.read_current_doc
read_current_doc(r, thread) ==
    /\ reqs[r].pc = "engine"
    /\ LET document_id == tool_document_id(ctx, thread)
           d == DocumentCRUD_get(documents, document_id)
       IN  resp' = [Resp("read_current_doc", reqs[r].session_id,
                         reqs[r].project_id, 0)
                      EXCEPT !.req = r, !.document = document_id,
                             !.text = IF document_id # None /\ d # {}
                                         /\ Strip((CHOOSE x \in d : TRUE).content) # ""
                                      THEN (CHOOSE x \in d : TRUE).content
                                      ELSE "document could not be found"]
    /\ UNCHANGED <<state, now, projects, documents, sessions, conversations, invitations,
                   uploads, ctx, reqs>>

\* "if doc_after and doc_after != doc_before: response.document = doc_after"
chat_document(doc_before, doc_after) ==
    IF doc_after # "" /\ doc_after # doc_before THEN doc_after ELSE None

\* Runner.run returned: chat(), lines 596-614
chat_end(r, final_output) ==
    /\ reqs[r].pc = "engine"
    /\ reqs[r].pending_project = None
    /\ LET ai_response == IF final_output = "" THEN Apology ELSE final_output
           project_id == reqs[r].project_id
       IN  /\ conversations' = ConversationCRUD_add_message(
                                   conversations, reqs[r].conversation_id,
                                   "assistant", ai_response, now)
           /\ resp' = [Resp("chat", reqs[r].session_id, project_id, 200)
                         EXCEPT !.req = r, !.text = ai_response,
                                !.document = chat_document(
                                    reqs[r].doc_before,
                                    get_document_content(documents, project_id)),
                                !.active_users =
                                    {s.session_id : s \in
                                        SessionCRUD_get_active_by_project(
                                            sessions, project_id)}]
    /\ reqs' = [reqs EXCEPT ![r] = IdleReq]
    /\ UNCHANGED <<state, now, projects, documents, sessions, invitations, uploads, ctx>>

\* Runner.run raised: HTTPException(500) from run_agent_conversation
chat_engine_error(r) ==
    /\ reqs[r].pc = "engine"
    /\ reqs[r].pending_project = None
    /\ resp' = [Resp("chat", reqs[r].session_id, reqs[r].project_id, 500)
                  EXCEPT !.req = r]
    /\ reqs' = [reqs EXCEPT ![r] = IdleReq]
    /\ UNCHANGED <<state, now, projects, documents, sessions, conversations, invitations,
                   uploads, ctx>>

\* ----------------------------------------------------- GET /document/{id}
get_document(project_id) ==
    /\ LET document_obj == DocumentCRUD_get(documents, DocumentId(project_id))
       IN  resp' = [Resp("document", None, project_id, 200) EXCEPT
                      !.document = IF document_obj = {} THEN ""
                                   ELSE (CHOOSE d \in document_obj : TRUE).content]
    /\ UNCHANGED <<state, now, projects, documents, sessions, conversations, invitations,
                   uploads, ctx, reqs>>

\* ------------------------------------------------------ GET /history/{id}
\* the orders in which a query without ORDER BY may return a set of rows
Orders(rows) ==
    {o \in [1..Cardinality(rows) -> rows] : \A x \in rows : \E i \in DOMAIN o : o[i] = x}

\* faulty variant: every entry carries the session's name
history_user_name_any_role(role, user_name) == user_name

\* "userName": user_name if msg["role"] == "user" else None
history_user_name(role, user_name) == IF role = "user" THEN user_name ELSE None

\* the entries appended for one conversation (none when it has no messages)
history_entries(sess, conv) ==
    LET session == SessionCRUD_get(sess, conv.session_id)
        user_name == IF session = {} THEN None
                     ELSE (CHOOSE x \in session : TRUE).user_name
    IN  [i \in 1..Len(conv.messages) |->
            [role |-> conv.messages[i].role,
             content |-> conv.messages[i].content,
             timestamp |-> conv.messages[i].timestamp,
             conversationId |-> conv.conversation_id,
             userName |-> history_user_name(conv.messages[i].role, user_name)]]

RECURSIVE history_flatten(_, _)
history_flatten(sess, order) ==
    IF order = <<>> THEN <<>>
    ELSE history_entries(sess, Head(order)) \o history_flatten(sess, Tail(order))

\* list.sort(key=timestamp) is stable: an entry goes after every entry whose
\* timestamp is not greater
RECURSIVE history_insert(_, _)
history_insert(sorted, e) ==
    IF sorted = <<>> THEN <<e>>
    ELSE IF Head(sorted).timestamp <= e.timestamp
         THEN <<Head(sorted)>> \o history_insert(Tail(sorted), e)
         ELSE <<e>> \o sorted

\* faulty variant: the list is returned as flattened
history_sort_none(h) == h

RECURSIVE history_sort(_)
history_sort(h) ==
    IF h = <<>> THEN <<>>
    ELSE history_insert(history_sort(SubSeq(h, 1, Len(h) - 1)), h[Len(h)])

\* the history list of the response, for one return order of the store
get_history_list(sess, order) == history_sort(history_flatten(sess, order))

get_history(project_id, order) ==
    /\ order \in Orders(ConversationCRUD_get_by_project(conversations, project_id))
    /\ LET document_obj == DocumentCRUD_get(documents, DocumentId(project_id))
       IN  resp' = [Resp("history", None, project_id, 200) EXCEPT
                      !.history = get_history_list(sessions, order),
                      !.document = IF document_obj = {} THEN ""
                                   ELSE (CHOOSE d \in document_obj : TRUE).content,
                      !.active_users =
                          {s.session_id : s \in SessionCRUD_get_active_by_project(
                                                    sessions, project_id)}]
    /\ UNCHANGED <<state, now, projects, documents, sessions, conversations, invitations,
                   uploads, ctx, reqs>>

\* ------------------------------------ POST /projects/{id}/cleanup-sessions
\* "if not session.user_name or session.user_name.strip() == ''"
cleanup_is_orphaned(r) == ~Truthy(r.user_name) \/ Strip(r.user_name) = ""

\* faulty variant: the oldest session of a name is the one kept
cleanup_least_recent(group) ==
    {r \in group : \A q \in group : r.joined_at_ts <= q.joined_at_ts}

\* sessions.sort(key=joined_at_ts, reverse=True): the sessions that can come
\* first, i.e. those with the greatest joined_at_ts
cleanup_most_recent(group) ==
    {r \in group : \A q \in group : q.joined_at_ts <= r.joined_at_ts}

\* kept: the session ids that come first in the sorted lists, one per name
cleanup_orphaned_sessions(project_id, kept) ==
    /\ LET active_sessions == SessionCRUD_get_active_by_project(sessions, project_id)
           named == {r \in active_sessions : ~cleanup_is_orphaned(r)}
           group(n) == {r \in named : r.user_name = n}
           removed == {r \in active_sessions :
                          cleanup_is_orphaned(r) \/ r.session_id \notin kept}
       IN  /\ kept \subseteq {r.session_id : r \in named}
           /\ \A r \in named :
                 /\ Cardinality({q \in group(r.user_name) : q.session_id \in kept}) = 1
                 /\ r.session_id \in kept => r \in cleanup_most_recent(group(r.user_name))
           /\ sessions' = {IF r \in removed THEN [r EXCEPT !.is_active = FALSE] ELSE r
                             : r \in sessions}
           /\ resp' = [Resp("cleanup", None, project_id, 200) EXCEPT
                          !.cleaned = Cardinality(removed)]
    /\ UNCHANGED <<state, now, projects, documents, conversations, invitations, uploads,
                   ctx, reqs>>

\* ---------------------------------------------------------------- uploads
\* Every HTTPException raised inside the try blocks of the four handlers
\* (401, 403, 404, 413, 400) is caught by "except Exception" and answered
\* as 500.
\* "if not session or session.project_id != project_id"
upload_session_owns(sess, header, project_id) ==
    /\ header # None
    /\ \E r \in SessionCRUD_get(sess, header) : r.project_id = project_id

\* "if file.size and file.size > 10 * 1024 * 1024"
upload_too_large(file_size) == file_size # 0 /\ file_size > MaxUploadSize

\* POST /projects/{project_id}/upload; text is None when the bytes are not
\* UTF-8 text
upload_document(header, project_id, file_size, text) ==
    /\ IF /\ upload_session_owns(sessions, header, project_id)
          /\ ~upload_too_large(file_size)
          /\ text # None
       THEN \E upload_id \in UploadIds :
              /\ UploadedDocumentCRUD_create_ok(uploads, upload_id)
              /\ LET session == CHOOSE r \in SessionCRUD_get(sessions, header) : TRUE
                 IN  uploads' = UploadedDocumentCRUD_create(
                                    uploads, upload_id, project_id, text, file_size,
                                    session.user_name, now)
              /\ sessions' = SessionCRUD_update_activity(sessions, header, now)
              /\ resp' = [Resp("upload", header, project_id, 200) EXCEPT
                            !.upload_id = upload_id, !.file_size = file_size]
       ELSE /\ UNCHANGED <<uploads, sessions>>
            /\ resp' = [Resp("upload", header, project_id, 500) EXCEPT
                          !.file_size = file_size]
    /\ UNCHANGED <<state, now, projects, documents, conversations, invitations, ctx, reqs>>

\* GET /projects/{project_id}/uploads
get_uploaded_documents(header, project_id) ==
    /\ resp' = IF upload_session_owns(sessions, header, project_id)
               THEN [Resp("uploads", header, project_id, 200) EXCEPT
                       !.upload_ids = {r.upload_id : r \in
                           UploadedDocumentCRUD_get_by_project(uploads, project_id)}]
               ELSE Resp("uploads", header, project_id, 500)
    /\ UNCHANGED <<state, now, projects, documents, sessions, conversations, invitations,
                   uploads, ctx, reqs>>

\* the checks shared by GET and DELETE /uploads/{upload_id}
upload_access(sess, ups, header, upload_id) ==
    /\ header # None
    /\ \E d \in UploadedDocumentCRUD_get(ups, upload_id) :
          upload_session_owns(sess, header, d.project_id)

\* GET /uploads/{upload_id}
get_uploaded_document_content(header, upload_id) ==
    /\ resp' = IF upload_access(sessions, uploads, header, upload_id)
               THEN LET document == CHOOSE d \in UploadedDocumentCRUD_get(
                                                    uploads, upload_id) : TRUE
                    IN  [Resp("upload_content", header, document.project_id, 200)
                           EXCEPT !.upload_id = upload_id, !.text = document.content]
               ELSE [Resp("upload_content", header, None, 500) EXCEPT
                       !.upload_id = upload_id]
    /\ UNCHANGED <<state, now, projects, documents, sessions, conversations, invitations,
                   uploads, ctx, reqs>>

\* DELETE /uploads/{upload_id}
delete_uploaded_document(header, upload_id) ==
    /\ IF upload_access(sessions, uploads, header, upload_id)
       THEN /\ uploads' = UploadedDocumentCRUD_delete(uploads, upload_id)
            /\ resp' = [Resp("upload_delete", header, None, 200) EXCEPT
                          !.upload_id = upload_id]
       ELSE /\ uploads' = uploads
            /\ resp' = [Resp("upload_delete", header, None, 500) EXCEPT
                          !.upload_id = upload_id]
    /\ UNCHANGED <<state, now, projects, documents, sessions, conversations, invitations,
                   ctx, reqs>>

\* ------------------------------------------------------------ invitations
\* POST /projects/{id}/invite.  Every HTTPException raised inside the try
\* block (401, 403, 404) is caught by "except Exception" and answered as 500.
\* faulty variant: an inactive session may not invite
invite_authorized_active_only(sess, projs, header, project_id) ==
    /\ header # None
    /\ \E r \in SessionCRUD_get(sess, header) : r.project_id = project_id /\ r.is_active
    /\ ProjectCRUD_get(projs, project_id) # {}

\* send_invitation_email: the email service's result, False when it raises
send_invitation_email(outcome) == outcome = "delivered"

invite_authorized(sess, projs, header, project_id) ==
    /\ header # None
    /\ \E r \in SessionCRUD_get(sess, header) : r.project_id = project_id
    /\ ProjectCRUD_get(projs, project_id) # {}

invite_to_project(header, project_id, email, inviter_name, email_sent) ==
    /\ IF invite_authorized(sessions, projects, header, project_id)
       THEN \E token \in Tokens :
              /\ InvitationCRUD_get_by_token(invitations, token) = {}
              /\ LET session == CHOOSE r \in SessionCRUD_get(sessions, header) : TRUE
                 IN  invitations' = InvitationCRUD_create(
                        invitations, InvitationId(token), project_id, email, token,
                        IF Truthy(inviter_name) THEN inviter_name
                        ELSE session.user_name,
                        now + InvitationTTL, now)
              /\ resp' = [Resp("invite", header, project_id, 200) EXCEPT
                            !.token = token, !.valid = TRUE,
                            !.text = IF email_sent THEN "Invitation sent"
                                     ELSE "Invitation created but email could not be sent"]
       ELSE /\ invitations' = invitations
            /\ resp' = Resp("invite", header, project_id, 500)
    /\ UNCHANGED <<state, now, projects, documents, sessions, conversations, uploads,
                   ctx, reqs>>

\* faulty variant: the is_used check is missing
validate_valid_ignore_used(invs, projs, token, t) ==
    \E r \in InvitationCRUD_get_by_token(invs, token) :
        /\ ~(r.expires_at_ts # 0 /\ t > r.expires_at_ts)
        /\ ProjectCRUD_get(projs, r.project_id) # {}

\* GET /invitations/{token}/validate: the handler's own checks
validate_valid(invs, projs, token, t) ==
    \E r \in InvitationCRUD_get_by_token(invs, token) :
        /\ ~r.is_used
        /\ ~(r.expires_at_ts # 0 /\ t > r.expires_at_ts)
        /\ ProjectCRUD_get(projs, r.project_id) # {}

validate_invitation(token) ==
    /\ resp' = [Resp("validate", None,
                     IF validate_valid(invitations, projects, token, now)
                     THEN (CHOOSE r \in InvitationCRUD_get_by_token(invitations, token)
                              : TRUE).project_id
                     ELSE None, 200)
                  EXCEPT !.token = token,
                         !.valid = validate_valid(invitations, projects, token, now)]
    /\ UNCHANGED <<state, now, projects, documents, sessions, conversations, invitations,
                   uploads, ctx, reqs>>

\* the project a session id is bound to (None without a record)
SessionBinding(sess, session_id) ==
    IF SessionCRUD_get(sess, session_id) = {} THEN None
    ELSE (CHOOSE r \in SessionCRUD_get(sess, session_id) : TRUE).project_id

\* faulty variant: the is_valid check is missing
accept_allowed_any_known(invs, projs, token, t) ==
    \E r \in InvitationCRUD_get_by_token(invs, token) :
        ProjectCRUD_get(projs, r.project_id) # {}

\* POST /invitations/{token}/accept
accept_allowed(invs, projs, token, t) ==
    /\ InvitationCRUD_get_by_token(invs, token) # {}
    /\ InvitationCRUD_is_valid(invs, projs, token, t)
    /\ \E r \in InvitationCRUD_get_by_token(invs, token) :
          ProjectCRUD_get(projs, r.project_id) # {}

\* faulty variant: the session is always created, an existing one is never rebound
accept_bind_session_create_only(sess, session_id, project_id, t) ==
    SessionCRUD_create(sess, session_id, project_id, None, t)

\* "Create or update session to join the project"
accept_bind_session(sess, session_id, project_id, t) ==
    IF SessionCRUD_get(sess, session_id) # {}
    THEN SessionCRUD_update_project(sess, session_id, project_id)
    ELSE SessionCRUD_create(sess, session_id, project_id, None, t)

\* created: whether sessions.create stored the new row; it returns False
\* when the store raises, and the handler does not look at the result
accept_invitation_store(token, header, created) ==
    \E session_id \in SessionIdsFor(header) :
        /\ IF accept_allowed(invitations, projects, token, now)
           THEN LET invitation ==
                        CHOOSE r \in InvitationCRUD_get_by_token(invitations, token) : TRUE
                IN  /\ invitations' = InvitationCRUD_mark_used(
                                          invitations, invitation.invitation_id, now)
                    /\ sessions' = IF created \/ SessionCRUD_get(sessions, session_id) # {}
                                   THEN accept_bind_session(sessions, session_id,
                                                            invitation.project_id, now)
                                   ELSE sessions
                    /\ resp' = [Resp("accept", session_id, invitation.project_id, 200)
                                  EXCEPT !.token = token,
                                         !.bound = SessionBinding(sessions, session_id)]
           ELSE /\ UNCHANGED <<invitations, sessions>>
                /\ resp' = [Resp("accept", session_id, None, 500) EXCEPT !.token = token]
        /\ UNCHANGED <<state, now, projects, documents, conversations, uploads, ctx, reqs>>

accept_invitation(token, header) == accept_invitation_store(token, header, TRUE)

\* ------------------------------------------------- record_info (agents_.py)
record_info(project_name, goal, audience, constraints, key_tasks, note) ==
    /\ Truthy(note) => Len(state.notes) < MaxNotes
    /\ state' = [project_name |-> record_info_scalar(state.project_name, project_name),
                 goal |-> record_info_scalar(state.goal, goal),
                 audience |-> record_info_scalar(state.audience, audience),
                 constraints |-> record_info_extend(state.constraints, constraints),
                 key_tasks |-> record_info_extend(state.key_tasks, key_tasks),
                 notes |-> IF Truthy(note) THEN Append(state.notes, note)
                           ELSE state.notes]
    /\ resp' = [Resp("record_info", None, None, 0) EXCEPT
                  !.args = [project_name |-> project_name, goal |-> goal,
                            audience |-> audience, constraints |-> constraints,
                            key_tasks |-> key_tasks, note |-> note],
                  !.missing = ProjectState_missing_fields(state')]
    /\ UNCHANGED <<now, projects, documents, sessions, conversations, invitations,
                   uploads, ctx, reqs>>

\* ------------------------------------------------------- specifications
\* Session and project lifecycle: /join, /leave, DELETE /projects/{id}.
LifecycleNext ==
    \/ Tick
    \/ \E h \in Headers, p \in ProjectIds, n \in UserNames \cup {None} :
          join_project(h, p, n)
    \/ \E h \in Headers : leave_project(h)
    \/ \E p \in ProjectIds : delete_project(p)

Spec == Init /\ [][LifecycleNext]_vars

\* Concurrent /chat requests and the tool calls the engine makes for them.
ChatNext ==
    \/ \E r \in ReqIds, h \in {"S1", None}, p \in ProjectIds, m \in Messages :
          chat_begin(r, h, p, m)
    \/ \E r \in ReqIds, t \in Threads, c \in Contents : write_doc(r, t, c)
    \/ \E r \in ReqIds, t \in Threads : read_current_doc(r, t)
    \/ \E r \in ReqIds, o \in Replies : chat_end(r, o)
    \/ \E r \in ReqIds : chat_engine_error(r)

SpecChat == Init /\ [][ChatNext]_vars

\* One /chat request at a time, with /join and project deletion.
ResetNext ==
    \/ \E h \in {"S1"}, p \in ProjectIds : join_project(h, p, None)
    \/ \E p \in ProjectIds : delete_project(p)
    \/ \E h \in {"S1", None}, p \in ProjectIds, m \in Messages :
          chat_begin("r1", h, p, m)
    \/ \E t \in Threads, c \in Contents : write_doc("r1", t, c)
    \/ \E t \in Threads : read_current_doc("r1", t)
    \/ \E o \in Replies : chat_end("r1", o)
    \/ chat_engine_error("r1")

SpecReset == Init /\ [][ResetNext]_vars

\* Invitations: invite, validate and accept, with /join, /leave, deletion
\* and the clock.
InviteNext ==
    \/ Tick
    \/ \E h \in SessionIds, p \in ProjectIds : join_project(h, p, None)
    \/ \E h \in {"S1"} : leave_project(h)
    \/ \E p \in ProjectIds : delete_project(p)
    \/ \E h \in Headers, p \in ProjectIds, e \in Emails, sent \in BOOLEAN :
          invite_to_project(h, p, e, None, sent)
    \/ \E t \in Tokens : validate_invitation(t)
    \/ \E t \in Tokens, h \in Headers : accept_invitation(t, h)

SpecInvite == Init /\ [][InviteNext]_vars

\* One /chat request at a time whose engine reads and writes the document,
\* blank contents included.  Project P2 is used by session S1 only.
DocNext ==
    \/ \E h \in SessionIds, m \in Messages : chat_begin("r1", h, "P1", m)
    \/ \E m \in Messages : chat_begin("r1", "S1", "P2", m)
    \/ \E t \in Threads, c \in Contents \cup BlankContents : write_doc("r1", t, c)
    \/ \E t \in Threads : read_current_doc("r1", t)
    \/ chat_end("r1", "ok")
    \/ chat_engine_error("r1")

SpecDoc == Init /\ [][DocNext]_vars

\* The conversation log: concurrent /chat turns of named and unknown
\* sessions, the clock, and GET /history.  A turn starts only while the
\* stored messages, the replies still awaited and its own two messages stay
\* within MaxMessages.  Project P2 is used by session S1 only.
RECURSIVE MessageCount(_)
MessageCount(convs) ==
    IF convs = {} THEN 0
    ELSE LET c == CHOOSE x \in convs : TRUE
         IN  Len(c.messages) + MessageCount(convs \ {c})

LogNext ==
    \/ Tick
    \/ \E n \in UserNames : join_project("S1", "P1", n)
    \/ \E r \in ReqIds, h \in SessionIds, p \in ProjectIds, m \in Messages :
          /\ p = "P1" \/ h = "S1"
          /\ MessageCount(conversations)
                + Cardinality({q \in ReqIds : reqs[q].pc = "engine"}) + 2 <= MaxMessages
          /\ chat_begin_turns(r, h, p, m, MaxMessages)
    \/ \E r \in ReqIds : chat_end(r, "ok")
    \/ \E r \in ReqIds : chat_engine_error(r)
    \/ \E p \in ProjectIds :
          \E order \in Orders(ConversationCRUD_get_by_project(conversations, p)) :
              get_history(p, order)

SpecLog == Init /\ [][LogNext]_vars

\* Two /chat turns on one project whose engines write the document at the
\* same time, each write as its separate store calls.
WritersNext ==
    \/ \E r \in ReqIds, h \in SessionIds, m \in Messages :
          chat_begin(r, h, "P1", m)
    \/ \E r \in ReqIds, t \in Threads, c \in Contents : write_doc_update(r, t, c)
    \/ \E r \in ReqIds : write_doc_create(r)
    \/ \E r \in ReqIds : chat_end(r, "ok")
    \/ \E r \in ReqIds : chat_engine_error(r)

SpecWriters == Init /\ [][WritersNext]_vars

\* A session that joins, leaves and chats while the clock advances.
TouchNext ==
    \/ Tick
    \/ \E p \in ProjectIds : join_project("S1", p, None)
    \/ leave_project("S1")
    \/ \E p \in ProjectIds, m \in Messages : chat_begin("r1", "S1", p, m)
    \/ chat_end("r1", "ok")
    \/ chat_engine_error("r1")

SpecTouch == Init /\ [][TouchNext]_vars

\* Sessions that share a display name in one project (a named session is
\* moved into the project by accepting an invitation), and the cleanup.
CleanupNext ==
    \/ Tick
    \/ \E h \in SessionIds, p \in ProjectIds, n \in UserNames \cup {None} :
          join_project(h, p, n)
    \/ \E h \in SessionIds, e \in Emails : invite_to_project(h, "P1", e, None, TRUE)
    \/ \E t \in Tokens, h \in SessionIds : accept_invitation(t, h)
    \/ \E p \in ProjectIds, kept \in SUBSET SessionIds :
          cleanup_orphaned_sessions(p, kept)

SpecCleanup == Init /\ [][CleanupNext]_vars

\* Uploads of sessions bound to projects.
UploadNext ==
    \/ \E h \in SessionIds, p \in ProjectIds : join_project(h, p, None)
    \/ \E h \in Headers, p \in ProjectIds, z \in FileSizes, x \in FileTexts :
          upload_document(h, p, z, x)
    \/ \E h \in Headers, p \in ProjectIds : get_uploaded_documents(h, p)
    \/ \E h \in Headers, u \in UploadIds : get_uploaded_document_content(h, u)
    \/ \E h \in Headers, u \in UploadIds : delete_uploaded_document(h, u)

SpecUpload == Init /\ [][UploadNext]_vars

\* Invitations whose notification is delivered, fails or raises.
NotifyNext ==
    \/ \E h \in SessionIds, p \in ProjectIds : join_project(h, p, None)
    \/ leave_project("S1")
    \/ \E p \in ProjectIds : delete_project(p)
    \/ \E h \in Headers, p \in ProjectIds, e \in Emails, o \in NotifierOutcomes :
          invite_to_project(h, p, e, None, send_invitation_email(o))

SpecNotify == Init /\ [][NotifyNext]_vars

\* A /chat request whose engine may never reply, while the server keeps
\* answering GET /document.  The event loop runs every handler that is
\* ready, hence the fairness on the GET; nothing in the code makes the
\* engine reply, so chat_end and chat_engine_error carry no fairness.
LiveNext ==
    \/ \E p \in ProjectIds, m \in Messages : chat_begin("r1", "S1", p, m)
    \/ \E c \in Contents : write_doc("r1", HandlerThread, c)
    \/ chat_end("r1", "ok")
    \/ chat_engine_error("r1")
    \/ \E p \in ProjectIds : get_document(p)

SpecLive ==
    Init /\ [][LiveNext]_vars /\ WF_vars(\E p \in ProjectIds : get_document(p))

\* The engine's record_info calls on one ProjectState.
RecordNext ==
    \E project_name \in ProjectNames, goal \in Goals, audience \in Audiences,
       constraints \in ConstraintLists, key_tasks \in KeyTaskLists, note \in Notes :
        record_info(project_name, goal, audience, constraints, key_tasks, note)

SpecRecord == Init /\ [][RecordNext]_vars

\* /chat turns of projects and sessions whose ids contain the separator of
\* the conversation id.  A turn starts only while the stored messages and
\* its own two stay within MaxMessages.
UnderscoreNext ==
    \/ \E h \in UnderscoreSessionIds, p \in UnderscoreProjectIds, m \in Messages :
          /\ MessageCount(conversations) + 2 <= MaxMessages
          /\ chat_begin_turns("r1", h, p, m, MaxMessages)
    \/ \E c \in Contents : write_doc("r1", HandlerThread, c)
    \/ chat_end("r1", "ok")
    \/ chat_engine_error("r1")

SpecUnderscore == Init /\ [][UnderscoreNext]_vars

\* Invitations accepted while the session store may fail to create a row.
AcceptNext ==
    \/ \E h \in SessionIds, p \in ProjectIds : join_project(h, p, None)
    \/ \E p \in ProjectIds : delete_project(p)
    \/ \E h \in SessionIds, p \in ProjectIds, e \in Emails :
          invite_to_project(h, p, e, None, TRUE)
    \/ \E t \in Tokens, h \in Headers, created \in BOOLEAN :
          accept_invitation_store(t, h, created)

SpecAccept == Init /\ [][AcceptNext]_vars

\* ================================================================ claims

\* C1: while two /chat requests for different projects are in flight, every
\* write_doc / read_current_doc call made for a request touches only the
\* document of that request's project.
C1_ToolCallsUseOwnDocument ==
    (/\ resp.op \in {"write_doc", "read_current_doc"}
     /\ \A r \in ReqIds : reqs[r].pc = "engine"
     /\ reqs["r1"].project_id # reqs["r2"].project_id)
        => resp.document \in {None, DocumentId(resp.project_id)}

\* C2: immediately after a /join for session S and project P, the active
\* sessions of P contain S exactly once.
C2_JoinListsSessionOnce ==
    resp.op = "join" =>
        Cardinality({r \in SessionCRUD_get_active_by_project(sessions, resp.project_id) :
                        r.session_id = resp.session_id}) = 1

\* C3: a /join naming P2 with an existing active session bound to P1 leaves
\* one record for the session, bound to P2 and not active in P1.
C3_RejoinRebinds ==
    [][\A s \in SessionIds, p1 \in ProjectIds, p2 \in ProjectIds :
        (/\ p1 # p2
         /\ \E r \in SessionCRUD_get(sessions, s) : r.is_active /\ r.project_id = p1
         /\ resp'.op = "join" /\ resp'.session_id = s /\ resp'.project_id = p2)
        => /\ Cardinality(SessionCRUD_get(sessions', s)) = 1
           /\ \A r \in SessionCRUD_get(sessions', s) : r.project_id = p2
           /\ \A r \in SessionCRUD_get_active_by_project(sessions', p1) :
                 r.session_id # s]_vars

\* C4: every /join naming a project leaves exactly one project record for
\* it; the record is created by the first request (created_at_ts is that
\* request's time) and later requests leave it unchanged.
C4_EnsureProjectIdempotent ==
    [][\A p \in ProjectIds :
        (resp'.op = "join" /\ resp'.project_id = p)
        => /\ Cardinality(ProjectCRUD_get(projects', p)) = 1
           /\ IF ProjectCRUD_get(projects, p) = {}
              THEN \A r \in ProjectCRUD_get(projects', p) : r.created_at_ts = now
              ELSE ProjectCRUD_get(projects', p) = ProjectCRUD_get(projects, p)]_vars

C4_Witness ==
    /\ resp.op = "join"
    /\ \E r \in ProjectCRUD_get(projects, resp.project_id) : r.created_at_ts < now

\* C5: after a successful DELETE /projects/P the project record is absent,
\* no session bound to P remains, every conversation of P is empty and no
\* upload of P remains.
C5_DeleteRemovesEverything ==
    (resp.op = "delete" /\ resp.status = 200) =>
        /\ ProjectCRUD_get(projects, resp.project_id) = {}
        /\ \A r \in sessions : r.project_id # resp.project_id
        /\ \A c \in ConversationCRUD_get_by_project(conversations, resp.project_id) :
              c.messages = <<>>
        /\ \A u \in uploads : u.project_id # resp.project_id

\* C6: DELETE /projects/P for a project without a record answers 404.
C6_DeleteAbsentIs404 ==
    [][\A p \in ProjectIds :
        (resp'.op = "delete" /\ resp'.project_id = p
            /\ ProjectCRUD_get(projects, p) = {})
        => resp'.status = 404]_vars

C6_Witness == resp.op = "delete" /\ resp.status = 404

\* C7: a DELETE /projects/P that reports failure leaves the conversations,
\* the document and the sessions of P as they were.
C7_DeleteAllOrNothing ==
    [][\A p \in ProjectIds :
        (resp'.op = "delete" /\ resp'.project_id = p /\ resp'.status # 200)
        => /\ ConversationCRUD_get_by_project(conversations', p)
                = ConversationCRUD_get_by_project(conversations, p)
           /\ DocumentCRUD_get(documents', DocumentId(p))
                = DocumentCRUD_get(documents, DocumentId(p))
           /\ {r \in sessions' : r.project_id = p}
                = {r \in sessions : r.project_id = p}]_vars

\* C8: validate answers valid=true exactly when the invitation exists, is
\* not used, the current time is strictly before expires_at and the
\* invitation's project exists.
C8_ValidIffThreeFacts ==
    resp.op = "validate" =>
        (resp.valid <=>
            \E r \in InvitationCRUD_get_by_token(invitations, resp.token) :
                /\ ~r.is_used
                /\ now < r.expires_at_ts
                /\ ProjectCRUD_get(projects, r.project_id) # {})

\* C9: an invitation that is used stays used in every later state, and
\* every validity check of a used invitation's token answers valid=false.
C9_UsedIsOneWay ==
    [][/\ \A i \in invitations :
            i.is_used => \E j \in invitations' :
                            j.invitation_id = i.invitation_id /\ j.is_used
       /\ resp'.op = "validate" =>
            \A j \in InvitationCRUD_get_by_token(invitations', resp'.token) :
                j.is_used => ~resp'.valid]_vars

C9_Witness ==
    /\ resp.op = "validate" /\ ~resp.valid
    /\ \E r \in InvitationCRUD_get_by_token(invitations, resp.token) :
          /\ r.is_used
          /\ now <= r.expires_at_ts
          /\ ProjectCRUD_get(projects, r.project_id) # {}

\* C10: after a successful accept of token T with session S, S has one
\* record, bound to the invitation's project, and a validate of T answers
\* valid=false.
C10_AcceptBindsAndInvalidates ==
    (resp.op = "accept" /\ resp.status = 200) =>
        /\ \A i \in InvitationCRUD_get_by_token(invitations, resp.token) :
              i.project_id = resp.project_id
        /\ Cardinality(SessionCRUD_get(sessions, resp.session_id)) = 1
        /\ \A r \in SessionCRUD_get(sessions, resp.session_id) :
              r.project_id = resp.project_id
        /\ ~validate_valid(invitations, projects, resp.token, now)

C10_Witness ==
    /\ resp.op = "accept" /\ resp.status = 200
    /\ resp.bound \notin {None, resp.project_id}

\* C11: an accept of a token that is unknown, used or expired answers 400
\* (InvalidInvitation), an accept of an otherwise valid token whose project
\* was deleted answers 404 (NotFound), and in each failing case the
\* invitations and the session records are unchanged.
C11_AcceptFailureKinds ==
    [][\A t \in Tokens :
        (resp'.op = "accept" /\ resp'.token = t /\ resp'.status # 200)
        => /\ resp'.status =
                IF \E i \in InvitationCRUD_get_by_token(invitations, t) :
                      /\ ~i.is_used
                      /\ now < i.expires_at_ts
                      /\ ProjectCRUD_get(projects, i.project_id) = {}
                THEN 404 ELSE 400
           /\ invitations' = invitations
           /\ sessions' = sessions]_vars

\* C12: an accept succeeds only for an invitation that was not used before
\* the request and leaves it used; an accept that does not succeed binds no
\* session; a used invitation never becomes unused.  Hence at most one
\* accept per token succeeds, whatever the session ids and the order.
C12_SingleUse ==
    [][/\ \A t \in Tokens :
            (resp'.op = "accept" /\ resp'.token = t) =>
                IF resp'.status = 200
                THEN /\ InvitationCRUD_get_by_token(invitations, t) # {}
                     /\ \A i \in InvitationCRUD_get_by_token(invitations, t) :
                            ~i.is_used
                     /\ \A i \in InvitationCRUD_get_by_token(invitations', t) :
                            i.is_used
                ELSE sessions' = sessions
       /\ \A i \in invitations :
            i.is_used => \A j \in invitations' :
                            j.invitation_id = i.invitation_id => j.is_used]_vars

C12_Witness ==
    /\ resp.op = "accept" /\ resp.status # 200
    /\ \E i \in InvitationCRUD_get_by_token(invitations, resp.token) :
          /\ i.is_used
          /\ now < i.expires_at_ts
          /\ ProjectCRUD_get(projects, i.project_id) # {}
          /\ \E r \in sessions : r.project_id = i.project_id

\* C13: a /chat request without a session header, or whose header names no
\* session record or a record with is_active = FALSE, answers 401, does not
\* start the engine and appends no message.
C13_ChatRequiresActiveSession ==
    [][\A r \in ReqIds :
        (/\ resp'.req = r /\ resp'.op \in {"chat", "chat_begin"}
         /\ reqs[r].pc = "idle"
         /\ \/ resp'.session_id = None
            \/ ~\E s \in SessionCRUD_get(sessions, resp'.session_id) : s.is_active)
        => /\ resp'.status = 401
           /\ reqs'[r].pc = "idle"
           /\ conversations' = conversations]_vars

\* C14: a successful /chat response carries the document exactly when the
\* project's document content after the turn differs from the content read
\* before the turn (a change to empty content included), and then it is the
\* content after the turn.
C14_DocumentIffChanged ==
    [][\A r \in ReqIds :
        (/\ resp'.op = "chat" /\ resp'.req = r /\ resp'.status = 200
         /\ reqs[r].pc = "engine")
        => LET doc_before == reqs[r].doc_before
               doc_after == get_document_content(documents', reqs[r].project_id)
           IN  IF doc_after # doc_before
               THEN resp'.document = doc_after
               ELSE resp'.document = None]_vars

\* C15: within a conversation append order is preserved: every step leaves
\* the messages a conversation already had as a prefix of its messages, a
\* message added by a /chat step is the last one, and the timestamps of a
\* conversation are non-decreasing.
C15_AppendOrderPreserved ==
    [][/\ \A c \in conversations : \E d \in conversations' :
            /\ d.conversation_id = c.conversation_id
            /\ Len(d.messages) >= Len(c.messages)
            /\ SubSeq(d.messages, 1, Len(c.messages)) = c.messages
       /\ \A d \in conversations' : \A i, j \in 1..Len(d.messages) :
            i < j => d.messages[i].timestamp <= d.messages[j].timestamp
       /\ \A r \in ReqIds :
            /\ (resp'.req = r /\ resp'.op = "chat_begin") =>
                  \E d \in ConversationCRUD_get(conversations',
                                                reqs'[r].conversation_id) :
                      /\ Len(d.messages) > 0
                      /\ d.messages[Len(d.messages)] =
                            [role |-> "user", content |-> reqs'[r].message,
                             timestamp |-> now]
            /\ (resp'.req = r /\ resp'.op = "chat" /\ resp'.status = 200) =>
                  \E d \in ConversationCRUD_get(conversations',
                                                reqs[r].conversation_id) :
                      /\ Len(d.messages) > 0
                      /\ d.messages[Len(d.messages)] =
                            [role |-> "assistant", content |-> resp'.text,
                             timestamp |-> now]]_vars

C15_Witness ==
    \E c \in conversations :
        /\ Len(c.messages) >= 3
        /\ c.messages[1].timestamp < c.messages[2].timestamp
        /\ c.messages[2].timestamp = c.messages[3].timestamp

\* C16: no message is lost when /chat requests on one conversation
\* interleave: every add_message of a /chat step leaves one conversation
\* record in which the added message occurs once more than before and every
\* other message as often as before, and leaves all other conversations as
\* they were.
C16_NoMessageLost ==
    [][\A r \in ReqIds :
        (/\ resp'.req = r
         /\ \/ resp'.op = "chat_begin"
            \/ resp'.op = "chat" /\ resp'.status = 200)
        => LET begin == resp'.op = "chat_begin"
               cid == IF begin THEN reqs'[r].conversation_id
                      ELSE reqs[r].conversation_id
               before == ConversationCRUD_get(conversations, cid)
               old == IF before = {} THEN <<>>
                      ELSE (CHOOSE c \in before : TRUE).messages
               new == (CHOOSE c \in ConversationCRUD_get(conversations', cid) :
                          TRUE).messages
               added == IF begin
                        THEN [role |-> "user", content |-> reqs'[r].message,
                              timestamp |-> now]
                        ELSE [role |-> "assistant", content |-> resp'.text,
                              timestamp |-> now]
               Count(seq, m) == Cardinality({i \in 1..Len(seq) : seq[i] = m})
           IN  /\ Cardinality(ConversationCRUD_get(conversations', cid)) = 1
               /\ \A m \in {old[i] : i \in 1..Len(old)}
                            \cup {new[i] : i \in 1..Len(new)} \cup {added} :
                     Count(new, m) = Count(old, m) + (IF m = added THEN 1 ELSE 0)
               /\ \A c \in conversations :
                     c.conversation_id # cid => c \in conversations']_vars

C16_Witness ==
    /\ resp.op = "chat" /\ resp.status = 200
    /\ \E c \in conversations :
          /\ Len(c.messages) = 4
          /\ c.messages[1].role = "user" /\ c.messages[2].role = "user"
          /\ c.messages[3].role = "assistant" /\ c.messages[4].role = "assistant"

\* C17: the history of GET /history/P holds exactly the messages of the
\* conversations of P, each as often as it is stored, in non-decreasing
\* timestamp order; when all timestamps differ, every order in which the
\* store may return the conversations yields this same history.
C17_HistorySortedPermutation ==
    resp.op = "history" =>
        LET h == resp.history
            convs == ConversationCRUD_get_by_project(conversations, resp.project_id)
        IN  /\ \A i \in 1..Len(h) :
                  \E c \in convs : c.conversation_id = h[i].conversationId
            /\ \A c \in convs :
                  /\ Cardinality({i \in 1..Len(h) :
                        h[i].conversationId = c.conversation_id}) = Len(c.messages)
                  /\ \A k \in 1..Len(c.messages) :
                        Cardinality({i \in 1..Len(h) :
                            /\ h[i].conversationId = c.conversation_id
                            /\ h[i].role = c.messages[k].role
                            /\ h[i].content = c.messages[k].content
                            /\ h[i].timestamp = c.messages[k].timestamp})
                        = Cardinality({i \in 1..Len(c.messages) :
                            c.messages[i] = c.messages[k]})
            /\ \A i, j \in 1..Len(h) : i < j => h[i].timestamp <= h[j].timestamp
            /\ (\A i, j \in 1..Len(h) : i < j => h[i].timestamp # h[j].timestamp)
                  => \A o \in Orders(convs) : get_history_list(sessions, o) = h

C17_Witness ==
    /\ resp.op = "history" /\ Len(resp.history) = 3
    /\ resp.history[1].timestamp < resp.history[2].timestamp
    /\ resp.history[2].timestamp < resp.history[3].timestamp
    /\ resp.history[1].conversationId # resp.history[2].conversationId
    /\ resp.history[1].conversationId = resp.history[3].conversationId

\* C18: in the history of a project, of two messages with equal timestamps
\* the one of the conversation created earlier comes first, and every order
\* in which the store may return the conversations yields the same history.
C18_TiesByCreationOrder ==
    resp.op = "history" =>
        LET h == resp.history
            convs == ConversationCRUD_get_by_project(conversations, resp.project_id)
        IN  /\ \A i, j \in 1..Len(h) :
                  (i < j /\ h[i].timestamp = h[j].timestamp) =>
                      \A ci, cj \in convs :
                          (/\ ci.conversation_id = h[i].conversationId
                           /\ cj.conversation_id = h[j].conversationId)
                          => ci.timestamp_ts <= cj.timestamp_ts
            /\ \A o \in Orders(convs) : get_history_list(sessions, o) = h

\* C19: every history entry names a conversation of the project; an entry
\* with role user carries the user_name of the session that started that
\* conversation (None when there is no such session record), an entry with
\* role assistant carries None.
C19_HistoryEntryAnnotations ==
    resp.op = "history" =>
        \A i \in 1..Len(resp.history) :
            \E c \in ConversationCRUD_get_by_project(conversations, resp.project_id) :
                /\ c.conversation_id = resp.history[i].conversationId
                /\ resp.history[i].userName =
                      IF resp.history[i].role # "user" THEN None
                      ELSE IF SessionCRUD_get(sessions, c.session_id) = {} THEN None
                      ELSE (CHOOSE x \in SessionCRUD_get(sessions, c.session_id) :
                               TRUE).user_name

C19_Witness ==
    /\ resp.op = "history"
    /\ \E i, j, k \in 1..Len(resp.history) :
          /\ resp.history[i].role = "user" /\ resp.history[i].userName \in UserNames
          /\ resp.history[j].role = "user" /\ resp.history[j].userName = None
          /\ resp.history[k].role = "assistant"
          /\ resp.history[k].conversationId = resp.history[i].conversationId

C21_ReplaceIdempotentOneDocument ==
    [][/\ \A d \in documents' :
            /\ d.document_id = DocumentId(d.project_id)
            /\ Cardinality({e \in documents' : e.project_id = d.project_id}) = 1
       /\ (resp'.op = "write_doc" /\ resp'.document # None) =>
            \A d \in DocumentCRUD_get(documents', resp'.document) :
                d.content = resp'.content
       /\ (/\ resp.op = "write_doc" /\ resp.document # None
           /\ resp'.op = "write_doc" /\ resp'.document = resp.document
           /\ resp'.content = resp.content)
          => {[document_id |-> d.document_id, content |-> d.content,
               project_id |-> d.project_id] : d \in documents'}
             = {[document_id |-> d.document_id, content |-> d.content,
                 project_id |-> d.project_id] : d \in documents}]_vars

C21_Witness ==
    /\ resp.op = "write_doc" /\ resp.content \in Contents
    /\ \E d \in DocumentCRUD_get(documents, resp.document) :
          d.content = resp.content
    /\ \E c \in conversations :
          /\ c.project_id = resp.project_id
          /\ c.session_id # resp.session_id
          /\ Len(c.messages) = 2
    /\ Cardinality(documents) = 2

\* C22: when the writes of two turns on one project overlap, step by step,
\* the project keeps one document whose content is one of the written
\* contents as written (no merge); a write that reports success has its
\* content in the document at that moment, and a write that reports failure
\* changes nothing.
C22_LastWriteWins ==
    [][/\ \A d \in documents' :
            /\ d.content \in Contents
            /\ Cardinality(DocumentCRUD_get(documents', d.document_id)) = 1
       /\ (resp'.op = "write_doc" /\ resp'.document # None) =>
            IF resp'.text = "Document updated successfully."
            THEN /\ DocumentCRUD_get(documents', resp'.document) # {}
                 /\ \A d \in DocumentCRUD_get(documents', resp'.document) :
                        d.content = resp'.content
            ELSE documents' = documents
       /\ resp'.op = "write_doc_absent" => documents' = documents]_vars

C22_Witness ==
    /\ resp.op = "write_doc"
    /\ resp.text = "Error: Failed to create new document"
    /\ \E d \in DocumentCRUD_get(documents, resp.document) : d.content # resp.content

\* C23: the update_activity call of a /chat request changes last_activity_ts
\* of the session only when the session has an active record; for an
\* inactive or absent session the session records stay as they were.
C23_TouchOnlyActiveSession ==
    [][\A s \in SessionIds :
        (resp'.op = "chat_begin" /\ resp'.session_id = s) =>
            IF \E r \in SessionCRUD_get(sessions, s) : r.is_active
            THEN sessions' = {IF r.session_id = s
                              THEN [r EXCEPT !.last_activity_ts = now] ELSE r
                                : r \in sessions}
            ELSE sessions' = sessions]_vars

\* C24: a /leave reports a deactivation ("Left project successfully", the
\* True of set_inactive) exactly when the session had an active record
\* before the request; otherwise it changes no session record.
C24_DeactivateReportsWasActive ==
    [][\A s \in SessionIds :
        (resp'.op = "leave" /\ resp'.session_id = s) =>
            IF \E r \in SessionCRUD_get(sessions, s) : r.is_active
            THEN /\ resp'.text = "Left project successfully"
                 /\ \A r \in SessionCRUD_get(sessions', s) : ~r.is_active
            ELSE /\ resp'.text = "No active session found"
                 /\ sessions' = sessions]_vars

\* C25: after the cleanup of project P every non-blank user_name that had
\* an active session in P has exactly one, and it is one with the greatest
\* joined_at_ts; no active session of P has a blank or missing user_name;
\* the sessions of other projects are unchanged; a cleanup of P right after
\* a cleanup of P deactivates nothing.
C25_CleanupKeepsMostRecent ==
    [][\A p \in ProjectIds :
        (resp'.op = "cleanup" /\ resp'.project_id = p) =>
            LET before == SessionCRUD_get_active_by_project(sessions, p)
                after == SessionCRUD_get_active_by_project(sessions', p)
            IN  /\ \A r \in before :
                      Strip(r.user_name) \notin {None, ""} =>
                          /\ Cardinality({q \in after : q.user_name = r.user_name}) = 1
                          /\ \A q \in after :
                                q.user_name = r.user_name
                                    => r.joined_at_ts <= q.joined_at_ts
                /\ after \subseteq before
                /\ \A r \in after : Strip(r.user_name) \notin {None, ""}
                /\ {r \in sessions : r.project_id # p}
                      = {r \in sessions' : r.project_id # p}
                /\ resp'.cleaned = Cardinality(before \ after)
                /\ (resp.op = "cleanup" /\ resp.project_id = p)
                      => (sessions' = sessions /\ resp'.cleaned = 0)]_vars

C25_Witness ==
    /\ resp.op = "cleanup" /\ resp.cleaned >= 1
    /\ \E r, q \in sessions :
          /\ r.project_id = resp.project_id /\ q.project_id = resp.project_id
          /\ r.user_name = q.user_name /\ r.user_name \in UserNames
          /\ r.is_active /\ ~q.is_active
          /\ q.joined_at_ts < r.joined_at_ts

\* C26: an upload, a listing, a read or a delete requested with a session
\* whose record is not bound to the target project (for a read or delete,
\* the project of the existing upload) answers 403, leaves the uploads as
\* they were and returns no upload content or listing.
C26_UploadsScopedByOwnership ==
    [][\A h \in SessionIds, p \in ProjectIds :
        (/\ resp'.session_id = h
         /\ ~upload_session_owns(sessions, h, p)
         /\ \/ resp'.op \in {"upload", "uploads"} /\ resp'.project_id = p
            \/ /\ resp'.op \in {"upload_content", "upload_delete"}
               /\ \E d \in UploadedDocumentCRUD_get(uploads, resp'.upload_id) :
                     d.project_id = p)
        => /\ resp'.status = 403
           /\ uploads' = uploads
           /\ resp'.text = None
           /\ resp'.upload_ids = {}]_vars

\* C27: an upload of more than 10 MiB by a session of the project answers
\* 400 or 413 and creates no upload record.
C27_OversizeUploadRejected ==
    [][\A h \in SessionIds, p \in ProjectIds :
        (/\ resp'.op = "upload" /\ resp'.session_id = h /\ resp'.project_id = p
         /\ upload_session_owns(sessions, h, p)
         /\ resp'.file_size > MaxUploadSize)
        => /\ resp'.status \in {400, 413}
           /\ uploads' = uploads]_vars

\* C28: an invite by a session whose record is bound to the existing
\* project P answers success, with the delivery message or the manual-share
\* message, and adds exactly one invitation record: for P, unused, with the
\* returned token.
C28_InviteSucceedsWithoutDelivery ==
    [][\A h \in SessionIds, p \in ProjectIds :
        (/\ resp'.op = "invite" /\ resp'.session_id = h /\ resp'.project_id = p
         /\ \E r \in SessionCRUD_get(sessions, h) : r.project_id = p
         /\ ProjectCRUD_get(projects, p) # {})
        => /\ resp'.status = 200 /\ resp'.valid
           /\ resp'.text \in {"Invitation sent",
                              "Invitation created but email could not be sent"}
           /\ invitations \subseteq invitations'
           /\ Cardinality(invitations' \ invitations) = 1
           /\ \A i \in invitations' \ invitations :
                 /\ i.project_id = p /\ ~i.is_used
                 /\ i.invitation_token = resp'.token]_vars

C28_Witness ==
    /\ resp.op = "invite" /\ resp.status = 200
    /\ resp.text = "Invitation created but email could not be sent"
    /\ \E i \in invitations : i.invitation_token = resp.token /\ ~i.is_used
    /\ \E r \in SessionCRUD_get(sessions, resp.session_id) : ~r.is_active

\* C29: when the engine fails during a /chat turn, the request answers with
\* an error and the project's document is what it was when the turn began.
C29_EngineFailureLeavesDocument ==
    [][\A r \in ReqIds :
        (/\ resp'.op = "chat" /\ resp'.req = r /\ resp'.status # 200
         /\ reqs[r].pc = "engine")
        => get_document_content(documents', reqs[r].project_id) = reqs[r].doc_before]_vars

\* C30: every /chat request that waits for the engine eventually completes.
C30_ChatEventuallyCompletes ==
    \A r \in ReqIds : (reqs[r].pc = "engine") ~> (reqs[r].pc = "idle")

\* C31: a step that creates a session, conversation or document record
\* leaves a project record for the project the new record references.
C31_ProjectExistsWhenReferenced ==
    [][/\ \A r \in sessions' :
            SessionCRUD_get(sessions, r.session_id) = {}
                => ProjectCRUD_get(projects', r.project_id) # {}
       /\ \A c \in conversations' :
            ConversationCRUD_get(conversations, c.conversation_id) = {}
                => ProjectCRUD_get(projects', c.project_id) # {}
       /\ \A d \in documents' :
            DocumentCRUD_get(documents, d.document_id) = {}
                => ProjectCRUD_get(projects', d.project_id) # {}]_vars

\* C32: after a record_info call, constraints and key_tasks hold no entry
\* twice and no empty entry, the entries that were present keep their
\* positions, and project_name, goal and audience differ from before only
\* where the call gave a non-empty value, which is then the field's value.
C32_RecordInfoMergeRule ==
    [][resp'.op = "record_info" =>
        /\ \A f \in {"constraints", "key_tasks"} :
              /\ \A i \in DOMAIN state'[f] :
                    /\ state'[f][i] # ""
                    /\ \A j \in DOMAIN state'[f] : state'[f][i] = state'[f][j] => i = j
              /\ Len(state[f]) <= Len(state'[f])
              /\ SubSeq(state'[f], 1, Len(state[f])) = state[f]
        /\ \A f \in {"project_name", "goal", "audience"} :
              state'[f] # state[f] =>
                  /\ resp'.args[f] \notin {None, ""}
                  /\ state'[f] = resp'.args[f]]_vars

C32_Witness ==
    /\ resp.op = "record_info"
    /\ resp.args.constraints = <<"a", "a">>
    /\ state.constraints = <<"b", "a">>
    /\ resp.args.project_name = "" /\ state.project_name = "N1"
    /\ resp.args.goal = "G1" /\ state.goal = "G1"

\* C33: no project has two active sessions with the same non-empty display
\* name.
C33_OneActiveSessionPerName ==
    \A a \in sessions, b \in sessions :
        (/\ a.is_active /\ b.is_active
         /\ a.project_id = b.project_id
         /\ Truthy(a.user_name) /\ a.user_name = b.user_name)
        => a.session_id = b.session_id

\* C34: a /join that fails leaves the record of every other session as it
\* was.
C34_FailedJoinTouchesNoOtherSession ==
    [][(resp'.op = "join" /\ resp'.status # 200) =>
        {r \in sessions' : r.session_id # resp'.session_id}
            = {r \in sessions : r.session_id # resp'.session_id}]_vars

\* C35: a step of a /chat request whose session is bound to a project other
\* than the project P2 named in the body appends nothing to the
\* conversations of P2, does not set the engine's context to P2, and answers
\* without P2's document and active users.
C35_ChatKeepsToSessionProject ==
    [][\A p2 \in ProjectIds :
        (/\ resp'.op \in {"chat_begin", "chat"}
         /\ resp'.project_id = p2
         /\ SessionBinding(sessions, resp'.session_id) \notin {None, p2})
        => /\ ConversationCRUD_get_by_project(conversations', p2)
                = ConversationCRUD_get_by_project(conversations, p2)
           /\ resp'.op = "chat_begin" => get_project_context(ctx', HandlerThread) # p2
           /\ resp'.document = None
           /\ resp'.active_users = {}]_vars

\* C36: a step of a /chat request naming project P adds messages only to
\* conversations whose project_id is P.
C36_MessagesStayInNamedProject ==
    [][resp'.op \in {"chat_begin", "chat"} =>
        \A c \in conversations' :
            (\A b \in conversations :
                b.conversation_id = c.conversation_id => b.messages # c.messages)
            => (c.messages = <<>> \/ c.project_id = resp'.project_id)]_vars

\* C37: while project P, joined before, has no project record (it was
\* deleted and not joined again) and holds no message and no document text,
\* the reply or a document write of a /chat request that was awaiting the
\* engine leaves it without messages and without document text.
C37_DeletedProjectStaysEmpty ==
    [][\A p \in ProjectIds :
        (/\ ProjectCRUD_get(projects, p) = {} /\ ProjectCRUD_get(projects', p) = {}
         /\ \E r \in sessions : r.project_id = p
         /\ \A c \in ConversationCRUD_get_by_project(conversations, p) : c.messages = <<>>
         /\ get_document_content(documents, p) = ""
         /\ resp'.op \in {"chat", "write_doc"})
        => /\ \A c \in ConversationCRUD_get_by_project(conversations', p) :
                 c.messages = <<>>
           /\ get_document_content(documents', p) = ""]_vars

\* C38: an accept request that marks an invitation used leaves the accepting
\* session bound to the invitation's project.
C38_AcceptConsumesOnlyWhenBound ==
    [][resp'.op = "accept" =>
        \A i \in invitations' :
            (/\ i.invitation_token = resp'.token /\ i.is_used
             /\ \E b \in invitations : b.invitation_id = i.invitation_id /\ ~b.is_used)
            => SessionBinding(sessions', resp'.session_id) = i.project_id]_vars

\* C39: a stored invitation for which the validity check answers
\* valid=false keeps that answer after every step.
C39_InvalidStaysInvalid ==
    [][\A t \in Tokens :
        (/\ InvitationCRUD_get_by_token(invitations, t) # {}
         /\ ~validate_valid(invitations, projects, t, now))
        => ~validate_valid(invitations', projects', t, now')]_vars
====
